---- MODULE Spec2Model ----
(***************************************************************************)
(* A model of src/main.py: the schemas it declares, the route table it     *)
(* registers, the handlers, and the per-request pipeline                   *)
(* route match -> bind -> validate -> handler -> projection that the       *)
(* declarations drive.                                                     *)
(*                                                                         *)
(* Text is a sequence of one-character strings, so that lengths are        *)
(* measured and integers are parsed rather than assumed.                   *)
(***************************************************************************)
EXTENDS Integers, Sequences, FiniteSets, TLC

(***************************************************************************)
(* Bounds of the model.                                                    *)
(***************************************************************************)
NumClients == 2
MaxAge == 116
MaxPersonId == 7

(***************************************************************************)
(* Constants of the program.                                               *)
(***************************************************************************)
NameMinLength == 1
NameMaxLength == 50
AgeGt == 0
AgeLt == 115
PasswordMinLength == 8
PasswordMaxLength == 150
LocationMinLength == 1
LocationMaxLength == 20
UsernameMaxLength == 20
ContactMinLength == 1
ContactMaxLength == 20
MessageMinLength == 20
PersonIdGt == 0
PeronIdGt == 0
QueryNameMinLength == 1
QueryNameMaxLength == 50
HTTP_200_OK == 200
HTTP_201_CREATED == 201
HTTP_404_NOT_FOUND == 404

\* "No constraint of this kind is declared."
NoLen == 0 - 1

(***************************************************************************)
(* Text.                                                                   *)
(***************************************************************************)
Digits == <<"0", "1", "2", "3", "4", "5", "6", "7", "8", "9">>

Rep(n) == [i \in 1..n |-> "x"]

IsDigit(c) == \E i \in 1..10 : Digits[i] = c

DigitVal(c) == (CHOOSE i \in 1..10 : Digits[i] = c) - 1

RECURSIVE DigitsVal(_)
DigitsVal(s) ==
    IF s = <<>> THEN 0
    ELSE 10 * DigitsVal(SubSeq(s, 1, Len(s) - 1)) + DigitVal(s[Len(s)])

AllDigits(s) == s # <<>> /\ \A i \in 1..Len(s) : IsDigit(s[i])

\* int(text): an optional sign, then decimal digits; anything else does not parse.
ParseInt(s) ==
    IF s # <<>> /\ s[1] \in {"-", "+"}
    THEN IF AllDigits(Tail(s))
         THEN [ok |-> TRUE,
               n |-> IF s[1] = "-" THEN 0 - DigitsVal(Tail(s)) ELSE DigitsVal(Tail(s))]
         ELSE [ok |-> FALSE, n |-> 0]
    ELSE IF AllDigits(s) THEN [ok |-> TRUE, n |-> DigitsVal(s)]
         ELSE [ok |-> FALSE, n |-> 0]

RECURSIVE NatToStr(_)
NatToStr(n) ==
    IF n < 10 THEN <<Digits[n + 1]>>
    ELSE NatToStr(n \div 10) \o <<Digits[(n % 10) + 1]>>

\* str(n)
IntToStr(n) == IF n < 0 THEN <<"-">> \o NatToStr(0 - n) ELSE NatToStr(n)

(***************************************************************************)
(* Values: what a request channel delivers and what a model instance       *)
(* holds.  One record shape for all of them.                               *)
(***************************************************************************)
Val(t, s, n, o) == [t |-> t, s |-> s, n |-> n, o |-> o]
Absent == Val("absent", <<>>, 0, <<>>)
Null == Val("null", <<>>, 0, <<>>)
JStr(s) == Val("str", s, 0, <<>>)
JInt(n) == Val("int", <<>>, n, <<>>)
JBool(b) == Val("bool", <<>>, IF b THEN 1 ELSE 0, <<>>)
JEnum(s) == Val("enum", s, 0, <<>>)
Obj(m) == Val("obj", <<>>, 0, m)

(***************************************************************************)
(* Models (src/main.py, 18-89).                                            *)
(***************************************************************************)
HairColor ==
    { <<"w","h","i","t","e">>, <<"b","r","o","w","n">>, <<"b","l","a","c","k">>,
      <<"b","l","o","n","d","e">>, <<"r","e","d">>, <<"b","l","u","e">> }

\* A field declaration: its type, whether a value is required, and the
\* constraints given as keywords (min_length, max_length; gt, ge, lt, le).
FieldDecl(name, type, required, minl, maxl, bounds) ==
    [name |-> name, type |-> type, required |-> required,
     min_length |-> minl, max_length |-> maxl, bounds |-> bounds]

Bound(op, n) == [op |-> op, n |-> n]

StrField(name, required, minl, maxl) == FieldDecl(name, "str", required, minl, maxl, {})

Location ==
    << StrField("city", TRUE, LocationMinLength, LocationMaxLength),
       StrField("state", TRUE, LocationMinLength, LocationMaxLength),
       StrField("country", TRUE, LocationMinLength, LocationMaxLength) >>

\* PersonBase with the age bounds declared inclusive (ge, le).
PersonBaseInclusive ==
    << StrField("first_name", TRUE, NameMinLength, NameMaxLength),
       StrField("last_name", TRUE, NameMinLength, NameMaxLength),
       FieldDecl("age", "int", TRUE, NoLen, NoLen, {Bound("ge", AgeGt), Bound("le", AgeLt)}),
       FieldDecl("hair_color", "enum", FALSE, NoLen, NoLen, {}),
       FieldDecl("is_married", "bool", FALSE, NoLen, NoLen, {}) >>

PersonBase ==
    << StrField("first_name", TRUE, NameMinLength, NameMaxLength),
       StrField("last_name", TRUE, NameMinLength, NameMaxLength),
       FieldDecl("age", "int", TRUE, NoLen, NoLen, {Bound("gt", AgeGt), Bound("lt", AgeLt)}),
       FieldDecl("hair_color", "enum", FALSE, NoLen, NoLen, {}),
       FieldDecl("is_married", "bool", FALSE, NoLen, NoLen, {}) >>

\* Person with the password declared optional.
PersonPasswordOptional ==
    PersonBase \o << StrField("password", FALSE, PasswordMinLength, PasswordMaxLength) >>

Person ==
    PersonBase \o << StrField("password", TRUE, PasswordMinLength, PasswordMaxLength) >>

PersonOut == PersonBase

LoginOut == << StrField("username", TRUE, NoLen, UsernameMaxLength) >>

NoModel == <<>>

FieldNames(schema) == { schema[i].name : i \in 1..Len(schema) }

(***************************************************************************)
(* Constraint primitives: what each declared field type and each Field(),  *)
(* Query(), Path(), Form() keyword does to one raw value.                  *)
(***************************************************************************)
Upper == <<"A","B","C","D","E","F","G","H","I","J","K","L","M",
           "N","O","P","Q","R","S","T","U","V","W","X","Y","Z">>
Lower == <<"a","b","c","d","e","f","g","h","i","j","k","l","m",
           "n","o","p","q","r","s","t","u","v","w","x","y","z">>

LowerChar(c) ==
    IF \E i \in 1..26 : Upper[i] = c
    THEN Lower[CHOOSE i \in 1..26 : Upper[i] = c]
    ELSE c

LowerStr(s) == [i \in 1..Len(s) |-> LowerChar(s[i])]

BoolTrue == { <<"1">>, <<"o","n">>, <<"t">>, <<"t","r","u","e">>, <<"y">>, <<"y","e","s">> }
BoolFalse == { <<"0">>, <<"o","f","f">>, <<"f">>, <<"f","a","l","s","e">>, <<"n">>, <<"n","o">> }

Accept(v) == [ok |-> TRUE, kind |-> "", v |-> v]
Reject(kind) == [ok |-> FALSE, kind |-> kind, v |-> Null]

\* The text a str-typed field makes of a raw value; raw text is kept as it is.
CoerceStr(raw) ==
    CASE raw.t = "str" -> Accept(JStr(raw.s))
      [] raw.t = "int" -> Accept(JStr(IntToStr(raw.n)))
      [] raw.t = "bool" ->
            Accept(JStr(IF raw.n = 1 THEN <<"T","r","u","e">> ELSE <<"F","a","l","s","e">>))
      [] OTHER -> Reject("type_error.str")

\* min_length, then max_length, measured on the text as received.
CheckLength(f, s) ==
    IF f.min_length # NoLen /\ Len(s) < f.min_length THEN Reject("min_length")
    ELSE IF f.max_length # NoLen /\ Len(s) > f.max_length THEN Reject("max_length")
    ELSE Accept(JStr(s))

CoerceInt(raw) ==
    CASE raw.t = "int" -> Accept(JInt(raw.n))
      [] raw.t = "bool" -> Accept(JInt(raw.n))
      [] raw.t = "str" ->
            IF ParseInt(raw.s).ok THEN Accept(JInt(ParseInt(raw.s).n))
            ELSE Reject("type_error.integer")
      [] OTHER -> Reject("type_error.integer")

Fails(f, op, n) ==
    \E b \in f.bounds :
        /\ b.op = op
        /\ CASE op = "gt" -> ~(n > b.n)
             [] op = "ge" -> ~(n >= b.n)
             [] op = "lt" -> ~(n < b.n)
             [] op = "le" -> ~(n <= b.n)

\* gt and lt are strict: the threshold itself is rejected.
CheckBounds(f, n) ==
    IF Fails(f, "gt", n) THEN Reject("not_gt")
    ELSE IF Fails(f, "ge", n) THEN Reject("not_ge")
    ELSE IF Fails(f, "lt", n) THEN Reject("not_lt")
    ELSE IF Fails(f, "le", n) THEN Reject("not_le")
    ELSE Accept(JInt(n))

CheckEnum(raw) ==
    IF raw.t \in {"str", "enum"} /\ raw.s \in HairColor THEN Accept(JEnum(raw.s))
    ELSE Reject("enum")

CheckBool(raw) ==
    CASE raw.t = "bool" -> Accept(raw)
      [] raw.t = "int" /\ raw.n \in {0, 1} -> Accept(JBool(raw.n = 1))
      [] raw.t = "str" /\ LowerStr(raw.s) \in BoolTrue -> Accept(JBool(TRUE))
      [] raw.t = "str" /\ LowerStr(raw.s) \in BoolFalse -> Accept(JBool(FALSE))
      [] OTHER -> Reject("bool")

Count(s, c) == Cardinality({ i \in 1..Len(s) : s[i] = c })
At(s) == CHOOSE i \in 1..Len(s) : s[i] = "@"

\* local-part, "@", a domain with a dot inside it.
CheckEmail(raw) ==
    IF raw.t = "str" /\ Count(raw.s, "@") = 1 /\ At(raw.s) > 1
       /\ (\E i \in (At(raw.s) + 2)..(Len(raw.s) - 1) : raw.s[i] = ".")
    THEN Accept(JStr(raw.s))
    ELSE Reject("email")

CheckFile(raw) == IF raw.t = "file" THEN Accept(raw) ELSE Reject("file")

\* One field against its declaration: at most one violation, the first
\* failing constraint.
ValidateField(f, raw) ==
    IF raw.t = "absent" THEN (IF f.required THEN Reject("missing") ELSE Accept(Null))
    ELSE IF raw.t = "null" THEN (IF f.required THEN Reject("none.not_allowed") ELSE Accept(Null))
    ELSE CASE f.type = "str" ->
                IF CoerceStr(raw).ok THEN CheckLength(f, CoerceStr(raw).v.s) ELSE CoerceStr(raw)
           [] f.type = "int" ->
                IF CoerceInt(raw).ok THEN CheckBounds(f, CoerceInt(raw).v.n) ELSE CoerceInt(raw)
           [] f.type = "enum" -> CheckEnum(raw)
           [] f.type = "bool" -> CheckBool(raw)
           [] f.type = "email" -> CheckEmail(raw)
           [] f.type = "file" -> CheckFile(raw)

Get(m, k) == IF k \in DOMAIN m THEN m[k] ELSE Absent

Violation(loc, kind) == [loc |-> loc, kind |-> kind]

\* The violations of fields i.. of the schema, in declaration order: every
\* field is visited, whatever the earlier ones gave.
RECURSIVE FieldViolations(_, _, _, _)
FieldViolations(schema, m, loc, i) ==
    IF i > Len(schema) THEN <<>>
    ELSE (IF ValidateField(schema[i], Get(m, schema[i].name)).ok THEN <<>>
          ELSE << Violation(loc \o <<schema[i].name>>,
                            ValidateField(schema[i], Get(m, schema[i].name)).kind) >>)
         \o FieldViolations(schema, m, loc, i + 1)

\* A body against a model: all of its violations, or the instance.
ValidateModel(schema, raw, loc) ==
    IF raw.t = "absent" THEN [viol |-> << Violation(loc, "missing") >>, v |-> Null]
    ELSE IF raw.t # "obj" THEN [viol |-> << Violation(loc, "type_error.dict") >>, v |-> Null]
    ELSE [viol |-> FieldViolations(schema, raw.o, loc, 1),
          v |-> Obj([k \in FieldNames(schema) |->
                       ValidateField(schema[CHOOSE i \in 1..Len(schema) : schema[i].name = k],
                                     Get(raw.o, k)).v])]


(***************************************************************************)
(* Routes (src/main.py, 92-251), in the order the decorators run.          *)
(***************************************************************************)
sPerson == <<"p","e","r","s","o","n">>
sNew == <<"n","e","w">>
sDetail == <<"d","e","t","a","i","l">>
sLogin == <<"l","o","g","i","n">>
sContact == <<"c","o","n","t","a","c","t">>
sPostImage == <<"p","o","s","t","-","i","m","a","g","e">>

Lit(s) == [cap |-> FALSE, s |-> s, name |-> ""]
Cap(name) == [cap |-> TRUE, s |-> <<>>, name |-> name]

\* A parameter of a handler's signature: where it is read from, under which
\* name, and its declaration (a scalar field or a model).
Param(name, alias, in, decl) ==
    [name |-> name, alias |-> alias, in |-> in, is_model |-> FALSE,
     schema |-> NoModel, decl |-> decl]
ModelParam(name, schema) ==
    [name |-> name, alias |-> name, in |-> "body", is_model |-> TRUE,
     schema |-> schema, decl |-> StrField(name, TRUE, NoLen, NoLen)]

Route(method, path, endpoint, params, response_model, status_code) ==
    [method |-> method, path |-> path, endpoint |-> endpoint, params |-> params,
     response_model |-> response_model, status_code |-> status_code]

home_route == Route("GET", <<>>, "home", <<>>, NoModel, HTTP_200_OK)

\* POST /person/new with the input model as its response_model.
create_person_route_unprojected ==
    Route("POST", <<Lit(sPerson), Lit(sNew)>>, "create_person",
          << ModelParam("person", Person) >>, Person, HTTP_201_CREATED)

create_person_route ==
    Route("POST", <<Lit(sPerson), Lit(sNew)>>, "create_person",
          << ModelParam("person", Person) >>, PersonOut, HTTP_201_CREATED)

\* GET /person/detail with age declared as an integer.
show_person_query_route_int_age ==
    Route("GET", <<Lit(sPerson), Lit(sDetail)>>, "show_person_query",
          << Param("name", "name", "query",
                   StrField("name", FALSE, QueryNameMinLength, QueryNameMaxLength)),
             Param("age", "age", "query",
                   FieldDecl("age", "int", TRUE, NoLen, NoLen, {})) >>,
          NoModel, HTTP_200_OK)

show_person_query_route ==
    Route("GET", <<Lit(sPerson), Lit(sDetail)>>, "show_person_query",
          << Param("name", "name", "query",
                   StrField("name", FALSE, QueryNameMinLength, QueryNameMaxLength)),
             Param("age", "age", "query", StrField("age", TRUE, NoLen, NoLen)) >>,
          NoModel, HTTP_200_OK)

\* GET /person/detail/{person_id} with peron_id bound to the captured
\* segment.
show_person_path_route_bound ==
    Route("GET", <<Lit(sPerson), Lit(sDetail), Cap("person_id")>>, "show_person_path",
          << Param("peron_id", "person_id", "path",
                   FieldDecl("peron_id", "int", TRUE, NoLen, NoLen,
                             {Bound("gt", PeronIdGt)})) >>,
          NoModel, HTTP_200_OK)

show_person_path_route ==
    Route("GET", <<Lit(sPerson), Lit(sDetail), Cap("person_id")>>, "show_person_path",
          << Param("peron_id", "peron_id", "path",
                   FieldDecl("peron_id", "int", TRUE, NoLen, NoLen,
                             {Bound("gt", PeronIdGt)})) >>,
          NoModel, HTTP_200_OK)

\* PUT /person/{person_id} with person_id declared without gt=0.
update_person_route_any_id ==
    Route("PUT", <<Lit(sPerson), Cap("person_id")>>, "update_person",
          << Param("person_id", "person_id", "path",
                   FieldDecl("person_id", "int", TRUE, NoLen, NoLen, {})),
             ModelParam("person", Person),
             ModelParam("location", Location) >>,
          NoModel, HTTP_200_OK)

\* PUT /person/{person_id} with response_model=PersonOut.
update_person_route_projected ==
    Route("PUT", <<Lit(sPerson), Cap("person_id")>>, "update_person",
          << Param("person_id", "person_id", "path",
                   FieldDecl("person_id", "int", TRUE, NoLen, NoLen,
                             {Bound("gt", PersonIdGt)})),
             ModelParam("person", Person),
             ModelParam("location", Location) >>,
          PersonOut, HTTP_200_OK)

update_person_route ==
    Route("PUT", <<Lit(sPerson), Cap("person_id")>>, "update_person",
          << Param("person_id", "person_id", "path",
                   FieldDecl("person_id", "int", TRUE, NoLen, NoLen,
                             {Bound("gt", PersonIdGt)})),
             ModelParam("person", Person),
             ModelParam("location", Location) >>,
          NoModel, HTTP_200_OK)

login_route ==
    Route("POST", <<Lit(sLogin)>>, "login",
          << Param("username", "username", "form", StrField("username", TRUE, NoLen, NoLen)),
             Param("password", "password", "form", StrField("password", TRUE, NoLen, NoLen)) >>,
          LoginOut, HTTP_200_OK)

contact_route ==
    Route("POST", <<Lit(sContact)>>, "contact",
          << Param("first_name", "first_name", "form",
                   StrField("first_name", TRUE, ContactMinLength, ContactMaxLength)),
             Param("last_name", "last_name", "form",
                   StrField("last_name", TRUE, ContactMinLength, ContactMaxLength)),
             Param("email", "email", "form",
                   FieldDecl("email", "email", TRUE, NoLen, NoLen, {})),
             Param("message", "message", "form",
                   StrField("message", TRUE, MessageMinLength, NoLen)),
             Param("user_agent", "user-agent", "header",
                   StrField("user_agent", FALSE, NoLen, NoLen)),
             Param("ads", "ads", "cookie", StrField("ads", FALSE, NoLen, NoLen)) >>,
          NoModel, HTTP_200_OK)

post_image_route ==
    Route("POST", <<Lit(sPostImage)>>, "post_image",
          << Param("image", "image", "file",
                   FieldDecl("image", "file", TRUE, NoLen, NoLen, {})) >>,
          NoModel, HTTP_200_OK)

\* The route table if the second "def show_person" replaced the first
\* registration.
RoutesRedefined ==
    << home_route, create_person_route, show_person_path_route,
       update_person_route, login_route, contact_route, post_image_route >>

\* The route table: one entry per decorator, appended as the module is
\* executed.  The second "def show_person" rebinds the Python name only.
Routes ==
    << home_route, create_person_route, show_person_query_route,
       show_person_path_route, update_person_route, login_route,
       contact_route, post_image_route >>

(***************************************************************************)
(* Dispatch: method, then the path template segment by segment; the first  *)
(* route in registration order that matches.                               *)
(***************************************************************************)
PathMatches(template, path) ==
    /\ Len(template) = Len(path)
    /\ \A i \in 1..Len(template) : template[i].cap \/ template[i].s = path[i]

RouteMatches(r, rq) == r.method = rq.method /\ PathMatches(r.path, rq.path)

RECURSIVE MatchFrom(_, _)
MatchFrom(i, rq) ==
    IF i > Len(Routes) THEN 0
    ELSE IF RouteMatches(Routes[i], rq) THEN i
    ELSE MatchFrom(i + 1, rq)

Captures(template, path) ==
    [n \in { template[i].name : i \in { j \in 1..Len(template) : template[j].cap } } |->
        JStr(path[CHOOSE i \in 1..Len(template) : template[i].cap /\ template[i].name = n])]

(***************************************************************************)
(* Source binder: the raw value of each declared parameter, by name, from  *)
(* the channel it is declared on; no constraint is applied here.           *)
(***************************************************************************)
BodyParams(r) == { i \in 1..Len(r.params) : r.params[i].in = "body" }

Embedded(r) == Cardinality(BodyParams(r)) > 1

RawOf(p, r, rq) ==
    CASE p.in = "path" -> Get(Captures(r.path, rq.path), p.alias)
      [] p.in = "query" -> Get(rq.query, p.alias)
      [] p.in = "header" -> Get(rq.headers, p.alias)
      [] p.in = "cookie" -> Get(rq.cookies, p.alias)
      [] p.in = "form" ->
            IF Get(rq.form, p.alias) = JStr(<<>>) THEN Absent ELSE Get(rq.form, p.alias)
      [] p.in = "file" -> Get(rq.form, p.alias)
      [] p.in = "body" ->
            IF Embedded(r)
            THEN (IF rq.body.t = "obj" THEN Get(rq.body.o, p.alias) ELSE Absent)
            ELSE rq.body

ParamNames(r) == { r.params[i].name : i \in 1..Len(r.params) }

ParamOf(r, name) == r.params[CHOOSE i \in 1..Len(r.params) : r.params[i].name = name]

BindRequest(r, rq) == [n \in ParamNames(r) |-> RawOf(ParamOf(r, n), r, rq)]

(***************************************************************************)
(* Validation of a bound request.                                          *)
(***************************************************************************)
ParamLoc(p, r) ==
    IF p.is_model THEN (IF Embedded(r) THEN <<"body", p.alias>> ELSE <<"body">>)
    ELSE IF p.in \in {"form", "file"} THEN <<"body", p.alias>>
    ELSE <<p.in, p.alias>>

ParamViolations(p, r, raw) ==
    IF p.is_model THEN ValidateModel(p.schema, raw, ParamLoc(p, r)).viol
    ELSE IF ValidateField(p.decl, raw).ok THEN <<>>
    ELSE << Violation(ParamLoc(p, r), ValidateField(p.decl, raw).kind) >>

RECURSIVE ChannelViolations(_, _, _, _)
ChannelViolations(r, bag, channels, i) ==
    IF i > Len(r.params) THEN <<>>
    ELSE (IF r.params[i].in \in channels
          THEN ParamViolations(r.params[i], r, bag[r.params[i].name])
          ELSE <<>>)
         \o ChannelViolations(r, bag, channels, i + 1)

\* Path, query, header and cookie parameters are solved before the body.
RequestViolations(r, bag) ==
    ChannelViolations(r, bag, {"path"}, 1)
    \o ChannelViolations(r, bag, {"query"}, 1)
    \o ChannelViolations(r, bag, {"header"}, 1)
    \o ChannelViolations(r, bag, {"cookie"}, 1)
    \o ChannelViolations(r, bag, {"body", "form", "file"}, 1)

ParamValue(p, r, raw) ==
    IF p.is_model THEN ValidateModel(p.schema, raw, ParamLoc(p, r)).v
    ELSE ValidateField(p.decl, raw).v

RequestArgs(r, bag) == [n \in ParamNames(r) |-> ParamValue(ParamOf(r, n), r, bag[n])]


(***************************************************************************)
(* Handlers.  Each takes the validated arguments and the record store and  *)
(* gives what it returns or raises, and the record store it leaves.        *)
(***************************************************************************)
Return(v, dyn) == [kind |-> "return", v |-> v, dyn |-> dyn, status |-> 0, detail |-> ""]
Raise(status, detail) ==
    [kind |-> "http_exception", v |-> Null, dyn |-> <<>>, status |-> status, detail |-> detail]
Fault == [kind |-> "error", v |-> Null, dyn |-> <<>>, status |-> 0, detail |-> ""]

Out(result, store, reads) == [result |-> result, persons |-> store, reads |-> reads]

home(args, store) ==
    Out(Return(Obj([Hello |-> JStr(<<"W","o","r","l","d">>)]), <<>>), store, 0)

create_person(args, store) == Out(Return(args.person, <<>>), store, 0)

\* {name: age}: a dictionary keyed by a value of the request.
show_person_query(args, store) ==
    Out(Return(Obj(<<>>), << <<args.name, args.age>> >>), store, 0)

show_person_path(args, store) ==
    Out(Return(Obj(<<>>), << <<args.peron_id, JStr(<<"E","s","e"," ","i","d"," ","e","x","i","s","t","e","!">>)>> >>),
        store, 0)

InStore(id, store) == \E i \in 1..Len(store) : store[i] = id

\* update_person with the membership test inverted.
update_person_inverted(args, store) ==
    IF InStore(args.person_id.n, store)
    THEN Out(Raise(HTTP_404_NOT_FOUND, "This person does not exist."), store, 1)
    ELSE Out(Return(Obj(args.location.o @@ args.person.o), <<>>), store, 1)

\* update_person recording an identifier it did not find.
update_person_appending(args, store) ==
    IF ~InStore(args.person_id.n, store)
    THEN Out(Raise(HTTP_404_NOT_FOUND, "This person does not exist."),
             Append(store, args.person_id.n), 1)
    ELSE Out(Return(Obj(args.location.o @@ args.person.o), <<>>), store, 1)

\* results = person.dict(); results.update(location.dict()); then the
\* membership test on the record store.
update_person(args, store) ==
    IF ~InStore(args.person_id.n, store)
    THEN Out(Raise(HTTP_404_NOT_FOUND, "This person does not exist."), store, 1)
    ELSE Out(Return(Obj(args.location.o @@ args.person.o), <<>>), store, 1)

\* LoginOut(username=username): the constructor validates its argument.
login(args, store) ==
    IF ValidateModel(LoginOut, Obj([username |-> args.username]), <<>>).viol = <<>>
    THEN Out(Return(ValidateModel(LoginOut, Obj([username |-> args.username]), <<>>).v, <<>>),
             store, 0)
    ELSE Out(Fault, store, 0)

contact(args, store) == Out(Return(args.user_agent, <<>>), store, 0)

\* round(a / b, ndigits=2) in hundredths, ties to even.
RoundHundredths(a, b) ==
    IF 2 * ((100 * a) % b) > b THEN ((100 * a) \div b) + 1
    ELSE IF 2 * ((100 * a) % b) < b THEN (100 * a) \div b
    ELSE IF ((100 * a) \div b) % 2 = 0 THEN (100 * a) \div b
    ELSE ((100 * a) \div b) + 1

post_image(args, store) ==
    Out(Return(Obj([Filename |-> JStr(args.image.s),
                    Format |-> args.image.o.content_type,
                    Size_kb_hundredths |-> JInt(RoundHundredths(args.image.n, 1024))]), <<>>),
        store, 0)

CallEndpoint(r, args, store) ==
    CASE r.endpoint = "home" -> home(args, store)
      [] r.endpoint = "create_person" -> create_person(args, store)
      [] r.endpoint = "show_person_query" -> show_person_query(args, store)
      [] r.endpoint = "show_person_path" -> show_person_path(args, store)
      [] r.endpoint = "update_person" -> update_person(args, store)
      [] r.endpoint = "login" -> login(args, store)
      [] r.endpoint = "contact" -> contact(args, store)
      [] r.endpoint = "post_image" -> post_image(args, store)

(***************************************************************************)
(* Responses.                                                              *)
(***************************************************************************)
Response(status, body, dyn, errors, detail) ==
    [status |-> status, body |-> body, dyn |-> dyn, errors |-> errors, detail |-> detail]

NoResponse == Response(0, Null, <<>>, <<>>, "")
NotFoundResponse == Response(404, Null, <<>>, <<>>, "Not Found")
MethodNotAllowedResponse == Response(405, Null, <<>>, <<>>, "Method Not Allowed")
InvalidResponse(viol) == Response(422, Null, <<>>, viol, "")
ErrorResponse == Response(500, Null, <<>>, <<>>, "Internal Server Error")

\* JSON encoding: an enumeration member is written as its value.
Encode(v) ==
    IF v.t = "enum" THEN JStr(v.s)
    ELSE IF v.t = "obj"
         THEN Obj([k \in DOMAIN v.o |-> IF v.o[k].t = "enum" THEN JStr(v.o[k].s) ELSE v.o[k]])
         ELSE v

\* The return value through the route's response_model, when it declares
\* one: validated against it and cut down to its fields.
Project(r, result) ==
    IF result.kind = "http_exception"
    THEN Response(result.status, Null, <<>>, <<>>, result.detail)
    ELSE IF result.kind = "error" THEN ErrorResponse
    ELSE IF r.response_model = NoModel
         THEN Response(r.status_code, Encode(result.v), result.dyn, <<>>, "")
    ELSE IF ValidateModel(r.response_model, result.v, <<"response">>).viol # <<>>
         THEN ErrorResponse
    ELSE Response(r.status_code,
                  Encode(ValidateModel(r.response_model, result.v, <<"response">>).v),
                  <<>>, <<>>, "")


(***************************************************************************)
(* Requests the clients send.                                              *)
(***************************************************************************)
Req(method, path, query, body, form, headers, cookies) ==
    [method |-> method, path |-> path, query |-> query, body |-> body,
     form |-> form, headers |-> headers, cookies |-> cookies]

NoMap == [k \in {} |-> Absent]
Bare(method, path) == Req(method, path, NoMap, Absent, NoMap, NoMap, NoMap)
NoRequest == Bare("", <<>>)

tLuis == <<"L","u","i","s">>
tBerenguer == <<"B","e","r","e","n","g","u","e","r">>
tBlack == <<"b","l","a","c","k">>
tSecretpw == <<"s","e","c","r","e","t","p","w">>
tHunter22 == <<"h","u","n","t","e","r","2","2">>
tAbc == <<"a","b","c">>
tElche == <<"E","l","c","h","e">>
tAlicante == <<"A","l","i","c","a","n","t","e">>
tSpain == <<"S","p","a","i","n">>
tMail == <<"l","@","b",".","e","s">>

PersonObj(fn, ln, age, hc, im, pw) ==
    Obj([first_name |-> fn, last_name |-> ln, age |-> age,
         hair_color |-> hc, is_married |-> im, password |-> pw])

LocationObj(city, state, country) ==
    Obj([city |-> city, state |-> state, country |-> country])

GoodPerson == PersonObj(JStr(tLuis), JStr(tBerenguer), JInt(24), JStr(tBlack),
                        JBool(FALSE), JStr(tSecretpw))
GoodLocation == LocationObj(JStr(tElche), JStr(tAlicante), JStr(tSpain))
GoodUpdateBody == Obj([person |-> GoodPerson, location |-> GoodLocation])

\* Every combination of sent, broken and omitted fields of a person.
PersonBodies ==
    { PersonObj(fn, ln, age, hc, im, pw) :
        fn \in {Absent, Null, JStr(tLuis), JStr(<<>>)},
        ln \in {Absent, JStr(tBerenguer), JStr(Rep(NameMaxLength + 1))},
        age \in {Absent, JInt(24), JInt(AgeGt), JStr(tAbc)},
        hc \in {Absent, Null, JStr(tBlack), JStr(<<"B","l","a","c","k">>)},
        im \in {Absent, JBool(FALSE), JStr(<<"m","a","y","b","e">>)},
        pw \in {Absent, JStr(tSecretpw), JStr(<<"s","h","o","r","t">>)} }

\* A person valid but for its age, over every age of the sweep, as a JSON
\* number and as JSON text.
AgeBodies ==
    { PersonObj(JStr(tLuis), JStr(tBerenguer), a, Absent, Absent, JStr(tSecretpw)) :
        a \in { JInt(n) : n \in (0 - 1)..MaxAge }
              \cup { JStr(IntToStr(n)) : n \in {AgeGt, AgeGt + 1, AgeLt - 1, AgeLt} } }

LengthBodies ==
    { PersonObj(JStr(Rep(n)), JStr(tBerenguer), JInt(24), Absent, Absent, JStr(pw)) :
        n \in {NameMinLength, NameMaxLength, NameMaxLength + 1},
        pw \in {Rep(PasswordMinLength - 1), Rep(PasswordMinLength), tHunter22,
                Rep(PasswordMaxLength), Rep(PasswordMaxLength + 1)} }

CreateRequests ==
    { Req("POST", <<sPerson, sNew>>, NoMap, b, NoMap, NoMap, NoMap) :
        b \in PersonBodies \cup AgeBodies \cup LengthBodies \cup {Absent, JStr(tAbc)} }

DetailRequests ==
    { Req("GET", <<sPerson, sDetail>>, [name |-> n, age |-> a], Absent, NoMap, NoMap, NoMap) :
        n \in {Absent, JStr(<<>>), JStr(tLuis), JStr(Rep(QueryNameMaxLength)),
               JStr(Rep(QueryNameMaxLength + 1))},
        a \in {Absent, JStr(<<"2","4">>), JStr(tAbc), JStr(<<>>)} }

DetailPathRequests ==
    { Req("GET", <<sPerson, sDetail, seg>>, q, Absent, NoMap, NoMap, NoMap) :
        seg \in {<<"3">>, <<"0">>, tAbc},
        q \in {NoMap, [peron_id |-> JStr(<<"3">>)], [person_id |-> JStr(<<"3">>)]} }

IdSegments == { IntToStr(n) : n \in 0..MaxPersonId } \cup {tAbc, <<"-","1">>}

UpdateBodies ==
    { Obj([person |-> p, location |-> l]) :
        p \in {Absent, GoodPerson,
               PersonObj(JStr(tLuis), JStr(tBerenguer), JInt(AgeGt), Absent, Absent,
                         JStr(tHunter22))},
        l \in {Absent, GoodLocation,
               LocationObj(JStr(<<>>), JStr(tAlicante), JStr(tSpain))} }
    \cup {Absent, GoodPerson}

UpdateRequests ==
    { Req("PUT", <<sPerson, seg>>, NoMap, b, NoMap, NoMap, NoMap) :
        seg \in IdSegments, b \in UpdateBodies }

LoginRequests ==
    { Req("POST", <<sLogin>>, NoMap, Absent, [username |-> u, password |-> pw],
          NoMap, NoMap) :
        u \in {Absent, JStr(<<>>), JStr(tLuis), JStr(Rep(UsernameMaxLength)),
               JStr(Rep(UsernameMaxLength + 1))},
        pw \in {Absent, JStr(<<>>), JStr(tSecretpw)} }

ContactRequests ==
    { Req("POST", <<sContact>>, NoMap, Absent,
          [first_name |-> JStr(tLuis), last_name |-> ln, email |-> e,
           message |-> JStr(Rep(MessageMinLength))], h, NoMap) :
        ln \in {Absent, JStr(tBerenguer)},
        e \in {JStr(tMail), JStr(tAbc)},
        h \in {NoMap, [k \in {"user-agent"} |-> JStr(tAbc)]} }

JFile(name, ctype, size) == Val("file", name, size, [content_type |-> JStr(ctype)])

ImageRequests ==
    { Req("POST", <<sPostImage>>, NoMap, Absent, [image |-> f], NoMap, NoMap) :
        f \in {Absent, JStr(tAbc), JFile(tAbc, <<"p","n","g">>, 128),
               JFile(tAbc, <<"p","n","g">>, 2500)} }

Methods == {"GET", "POST", "PUT"}

Paths ==
    { <<>>, <<sPerson>>, <<sPerson, sNew>>, <<sPerson, sDetail>>,
      <<sPerson, sDetail, <<"3">>>>, <<sPerson, <<"3">>>>,
      <<sPerson, sDetail, <<"3">>, tAbc>>, <<sLogin>>, <<sContact>>,
      <<sPostImage>>, <<tAbc>> }

BareRequests == { Bare(m, p) : m \in Methods, p \in Paths }

Requests ==
    CreateRequests \cup DetailRequests \cup DetailPathRequests \cup UpdateRequests
    \cup LoginRequests \cup ContactRequests \cup ImageRequests \cup BareRequests

\* The requests sent while other requests are in flight: one or two of
\* every route, and every way PUT /person/{person_id} can end.
ConcurrentRequests ==
    { Bare("GET", <<>>), Bare("GET", <<tAbc>>),
      Req("POST", <<sPerson, sNew>>, NoMap, GoodPerson, NoMap, NoMap, NoMap),
      Req("GET", <<sPerson, sDetail>>, [age |-> JStr(tAbc)], Absent, NoMap, NoMap, NoMap),
      Bare("GET", <<sPerson, sDetail, <<"3">>>>),
      Req("POST", <<sLogin>>, NoMap, Absent,
          [username |-> JStr(tLuis), password |-> JStr(tSecretpw)], NoMap, NoMap),
      Req("POST", <<sContact>>, NoMap, Absent,
          [first_name |-> JStr(tLuis), last_name |-> JStr(tBerenguer),
           email |-> JStr(tMail), message |-> JStr(Rep(MessageMinLength))], NoMap, NoMap),
      Req("POST", <<sPostImage>>, NoMap, Absent,
          [image |-> JFile(tAbc, <<"p","n","g">>, 128)], NoMap, NoMap) }
    \cup { Req("PUT", <<sPerson, seg>>, NoMap, GoodUpdateBody, NoMap, NoMap, NoMap) :
             seg \in {<<"3">>, <<"6">>, <<"0">>} }
    \cup { Req("PUT", <<sPerson, <<"6">>>>, NoMap, Absent, NoMap, NoMap, NoMap) }

(***************************************************************************)
(* The server: the record store, and for each client the request in flight *)
(* and how far it has got.                                                 *)
(***************************************************************************)
VARIABLES
    persons,   \* the record store (src/main.py, 170)
    pc,        \* per client: idle, received, matched, bound, validated, handled, done
    req,       \* per client: the request in flight
    route,     \* per client: index in Routes of the matched route, 0 for none
    raw,       \* per client: the bound raw values, by parameter name
    viol,      \* per client: the violations validation collected
    args,      \* per client: the validated arguments
    result,    \* per client: what the handler returned or raised
    resp,      \* per client: the response
    trace,     \* per client: the steps run for the request in flight
    reads      \* per client: membership tests made on the record store

vars == <<persons, pc, req, route, raw, viol, args, result, resp, trace, reads>>

Clients == 1..NumClients

NoResult == [kind |-> "none", v |-> Null, dyn |-> <<>>, status |-> 0, detail |-> ""]

Init ==
    /\ persons = <<1, 2, 3, 4, 5>>
    /\ pc = [c \in Clients |-> "idle"]
    /\ req = [c \in Clients |-> NoRequest]
    /\ route = [c \in Clients |-> 0]
    /\ raw = [c \in Clients |-> NoMap]
    /\ viol = [c \in Clients |-> <<>>]
    /\ args = [c \in Clients |-> NoMap]
    /\ result = [c \in Clients |-> NoResult]
    /\ resp = [c \in Clients |-> NoResponse]
    /\ trace = [c \in Clients |-> <<>>]
    /\ reads = [c \in Clients |-> 0]

Receive(c, rq) ==
    /\ pc[c] = "idle"
    /\ req' = [req EXCEPT ![c] = rq]
    /\ pc' = [pc EXCEPT ![c] = "received"]
    /\ UNCHANGED <<persons, route, raw, viol, args, result, resp, trace, reads>>

\* Route match.  No route: the not-found response, or method-not-allowed
\* when the path alone matches a route.
Match(c) ==
    /\ pc[c] = "received"
    /\ route' = [route EXCEPT ![c] = MatchFrom(1, req[c])]
    /\ trace' = [trace EXCEPT ![c] = Append(@, "match")]
    /\ IF MatchFrom(1, req[c]) = 0
       THEN /\ resp' = [resp EXCEPT ![c] =
                          IF \E i \in 1..Len(Routes) : PathMatches(Routes[i].path, req[c].path)
                          THEN MethodNotAllowedResponse
                          ELSE NotFoundResponse]
            /\ pc' = [pc EXCEPT ![c] = "done"]
       ELSE /\ pc' = [pc EXCEPT ![c] = "matched"]
            /\ UNCHANGED resp
    /\ UNCHANGED <<persons, req, raw, viol, args, result, reads>>

Bind(c) ==
    /\ pc[c] = "matched"
    /\ raw' = [raw EXCEPT ![c] = BindRequest(Routes[route[c]], req[c])]
    /\ trace' = [trace EXCEPT ![c] = Append(@, "bind")]
    /\ pc' = [pc EXCEPT ![c] = "bound"]
    /\ UNCHANGED <<persons, req, route, viol, args, result, resp, reads>>

Validate(c) ==
    /\ pc[c] = "bound"
    /\ viol' = [viol EXCEPT ![c] = RequestViolations(Routes[route[c]], raw[c])]
    /\ args' = [args EXCEPT ![c] = RequestArgs(Routes[route[c]], raw[c])]
    /\ trace' = [trace EXCEPT ![c] = Append(@, "validate")]
    /\ pc' = [pc EXCEPT ![c] = "validated"]
    /\ UNCHANGED <<persons, req, route, raw, result, resp, reads>>

\* Violations: the validation-failure response with all of them; the
\* handler is not called.
RespondInvalid(c) ==
    /\ pc[c] = "validated"
    /\ viol[c] # <<>>
    /\ resp' = [resp EXCEPT ![c] = InvalidResponse(viol[c])]
    /\ pc' = [pc EXCEPT ![c] = "done"]
    /\ UNCHANGED <<persons, req, route, raw, viol, args, result, trace, reads>>

Handle(c) ==
    /\ pc[c] = "validated"
    /\ viol[c] = <<>>
    /\ result' = [result EXCEPT ![c] = CallEndpoint(Routes[route[c]], args[c], persons).result]
    /\ persons' = CallEndpoint(Routes[route[c]], args[c], persons).persons
    /\ reads' = [reads EXCEPT ![c] = @ + CallEndpoint(Routes[route[c]], args[c], persons).reads]
    /\ trace' = [trace EXCEPT ![c] = Append(@, "handler")]
    /\ pc' = [pc EXCEPT ![c] = "handled"]
    /\ UNCHANGED <<req, route, raw, viol, args, resp>>

Respond(c) ==
    /\ pc[c] = "handled"
    /\ resp' = [resp EXCEPT ![c] = Project(Routes[route[c]], result[c])]
    /\ trace' = [trace EXCEPT ![c] = Append(@, "project")]
    /\ pc' = [pc EXCEPT ![c] = "done"]
    /\ UNCHANGED <<persons, req, route, raw, viol, args, result, reads>>

\* The response is sent; everything of the request is dropped.
Finish(c) ==
    /\ pc[c] = "done"
    /\ pc' = [pc EXCEPT ![c] = "idle"]
    /\ req' = [req EXCEPT ![c] = NoRequest]
    /\ route' = [route EXCEPT ![c] = 0]
    /\ raw' = [raw EXCEPT ![c] = NoMap]
    /\ viol' = [viol EXCEPT ![c] = <<>>]
    /\ args' = [args EXCEPT ![c] = NoMap]
    /\ result' = [result EXCEPT ![c] = NoResult]
    /\ resp' = [resp EXCEPT ![c] = NoResponse]
    /\ trace' = [trace EXCEPT ![c] = <<>>]
    /\ reads' = [reads EXCEPT ![c] = 0]
    /\ UNCHANGED persons

Step(c) ==
    \/ Match(c)
    \/ Bind(c)
    \/ Validate(c)
    \/ RespondInvalid(c)
    \/ Handle(c)
    \/ Respond(c)
    \/ Finish(c)

\* One request at a time, over every request of the families above.
Next ==
    \/ \E rq \in Requests : Receive(1, rq)
    \/ Step(1)

Spec == Init /\ [][Next]_vars

\* Requests of several clients in flight at once, their steps interleaved.
NextConcurrent ==
    \E c \in Clients :
        \/ \E rq \in ConcurrentRequests : Receive(c, rq)
        \/ Step(c)

SpecConcurrent == Init /\ [][NextConcurrent]_vars

(***************************************************************************)
(* Properties.                                                             *)
(***************************************************************************)
Endpoint(c) == IF route[c] = 0 THEN "" ELSE Routes[route[c]].endpoint

Steps == <<"match", "bind", "validate", "handler", "project">>

IsPrefix(s, t) == Len(s) <= Len(t) /\ \A i \in 1..Len(s) : s[i] = t[i]

Ran(c, step) == \E i \in 1..Len(trace[c]) : trace[c][i] = step

HasViolationAt(c, loc) == \E i \in 1..Len(viol[c]) : viol[c][i].loc = loc

ViolationKindAt(c, loc) ==
    viol[c][CHOOSE i \in 1..Len(viol[c]) : viol[c][i].loc = loc].kind

Locs(v) == [i \in 1..Len(v) |-> v[i].loc]

\* C1: a successful response of POST /person/new holds only fields of
\* PersonOut, and one of POST /login only the field of LoginOut; neither ever
\* holds a password field, whatever the request carried.
C1_ResponseHoldsNoPassword ==
    \A c \in Clients :
        pc[c] = "done" =>
            /\ (Endpoint(c) = "create_person" /\ resp[c].status = 201) =>
                  /\ resp[c].body.t = "obj"
                  /\ DOMAIN resp[c].body.o \subseteq
                        {"first_name", "last_name", "age", "hair_color", "is_married"}
                  /\ "password" \notin DOMAIN resp[c].body.o
            /\ (Endpoint(c) = "login" /\ resp[c].status = 200) =>
                  /\ resp[c].body.t = "obj"
                  /\ DOMAIN resp[c].body.o \subseteq {"username"}
                  /\ "password" \notin DOMAIN resp[c].body.o
            /\ (Endpoint(c) = "create_person" /\ viol[c] = <<>>) => resp[c].status = 201

\* The handler of POST /person/new returned the full person, password
\* included, and the 201 response was built from it.
C1_Witness ==
    \E c \in Clients :
        /\ pc[c] = "done"
        /\ Endpoint(c) = "create_person"
        /\ resp[c].status = 201
        /\ "password" \in DOMAIN result[c].v.o
        /\ result[c].v.o.password = JStr(tHunter22)

PersonOrder == <<"first_name", "last_name", "age", "hair_color", "is_married", "password">>

InRange(n, lo, hi) == lo <= n /\ n <= hi

\* Whether the value sent for a field of a person body is absent though
\* required, or violates the field's constraint (null for a required field
\* included), read off the declarations.
BrokenField(name, v) ==
    CASE name \in {"first_name", "last_name"} ->
            v.t \in {"absent", "null"} \/ (v.t = "str" /\ ~InRange(Len(v.s), 1, 50))
      [] name = "age" ->
            \/ v.t \in {"absent", "null"}
            \/ (v.t = "int" /\ ~(0 < v.n /\ v.n < 115))
            \/ (v.t = "str" /\ ~ParseInt(v.s).ok)
            \/ (v.t = "str" /\ ParseInt(v.s).ok
                  /\ ~(0 < ParseInt(v.s).n /\ ParseInt(v.s).n < 115))
      [] name = "hair_color" -> v.t = "str" /\ v.s \notin HairColor
      [] name = "is_married" ->
            v.t = "str" /\ LowerStr(v.s) \notin (BoolTrue \cup BoolFalse)
      [] name = "password" ->
            v.t \in {"absent", "null"} \/ (v.t = "str" /\ ~InRange(Len(v.s), 8, 150))

BrokenFields(body) ==
    LET Broken(name) == BrokenField(name, Get(body.o, name))
    IN  SelectSeq(PersonOrder, Broken)

\* C2: validation of a person body is batched: the violations are one per
\* broken field (absent though required, or constraint-violating), in
\* declaration order, and the reported paths are exactly the broken fields.
C2_ValidationIsBatched ==
    \A c \in Clients :
        (pc[c] \in {"validated", "done"} /\ Endpoint(c) = "create_person"
           /\ req[c].body.t = "obj") =>
            /\ Locs(viol[c]) =
                  [i \in 1..Len(BrokenFields(req[c].body)) |->
                      <<"body", BrokenFields(req[c].body)[i]>>]
            /\ \A i \in 1..Len(viol[c]) :
                  (Get(req[c].body.o, viol[c][i].loc[2]).t = "absent")
                      <=> (viol[c][i].kind = "missing")
            /\ (pc[c] = "done" /\ viol[c] # <<>>) =>
                  (resp[c].status = 422 /\ resp[c].errors = viol[c])

\* A required field is missing and two others are independently invalid:
\* all three are reported by the one validation.
C2_Witness ==
    \E c \in Clients :
        /\ pc[c] = "done"
        /\ Endpoint(c) = "create_person"
        /\ req[c].body.t = "obj"
        /\ Get(req[c].body.o, "first_name").t = "absent"
        /\ Get(req[c].body.o, "age") = JInt(0)
        /\ Get(req[c].body.o, "password") = JStr(<<"s","h","o","r","t">>)
        /\ Locs(resp[c].errors) = << <<"body", "first_name">>, <<"body", "age">>,
                                     <<"body", "password">> >>

AgeSent(c) == Get(req[c].body.o, "age")

AgeNumber(c) == IF AgeSent(c).t = "int" THEN AgeSent(c).n ELSE ParseInt(AgeSent(c).s).n

\* C3: for every integer age, the age field of a person passes validation
\* exactly when 0 < age < 115; a rejected one is a numeric-bound violation.
C3_AgeBoundIsStrict ==
    \A c \in Clients :
        (/\ pc[c] \in {"validated", "done"}
         /\ Endpoint(c) = "create_person"
         /\ req[c].body.t = "obj"
         /\ \/ AgeSent(c).t = "int"
            \/ (AgeSent(c).t = "str" /\ ParseInt(AgeSent(c).s).ok)) =>
            /\ ~HasViolationAt(c, <<"body", "age">>)
                  <=> (0 < AgeNumber(c) /\ AgeNumber(c) < 115)
            /\ HasViolationAt(c, <<"body", "age">>) =>
                  ViolationKindAt(c, <<"body", "age">>) =
                      (IF AgeNumber(c) <= 0 THEN "not_gt" ELSE "not_lt")

\* The boundary value 115 was sent and rejected.
C3_Witness ==
    \E c \in Clients :
        /\ pc[c] = "done"
        /\ Endpoint(c) = "create_person"
        /\ req[c].body.t = "obj"
        /\ AgeSent(c) = JInt(115)
        /\ HasViolationAt(c, <<"body", "age">>)
        /\ ViolationKindAt(c, <<"body", "age">>) = "not_lt"

PersonIdSent(c) == ParseInt(req[c].path[2]).n

\* C4: a PUT /person/{person_id} that passed validation ends 404 with the
\* fixed detail exactly when person_id is not one of 1..5, and 200 otherwise;
\* the 404 response is the same whatever the request.
C4_NotFoundIffNotInStore ==
    \A c \in Clients :
        (pc[c] = "done" /\ Endpoint(c) = "update_person" /\ viol[c] = <<>>) =>
            /\ PersonIdSent(c) > 0
            /\ (PersonIdSent(c) \notin {1, 2, 3, 4, 5}) <=>
                  (resp[c] = Response(404, Null, <<>>, <<>>, "This person does not exist."))
            /\ (PersonIdSent(c) \in {1, 2, 3, 4, 5}) <=> (resp[c].status = 200)

\* A valid PUT for identifier 6, which the store does not hold, got 404.
C4_Witness ==
    \E c \in Clients :
        /\ pc[c] = "done"
        /\ Endpoint(c) = "update_person"
        /\ viol[c] = <<>>
        /\ PersonIdSent(c) = 6
        /\ resp[c].status = 404

\* C5: the steps of a request run in the order match, bind, validate,
\* handler, projection; once validation gave a violation the handler is not
\* called and the record store is not consulted; a PUT whose body is invalid
\* or whose person_id is not an integer above 0 ends as a validation failure,
\* never as 404.
C5_NoHandlerAfterViolation ==
    \A c \in Clients :
        /\ IsPrefix(trace[c], Steps)
        /\ viol[c] # <<>> =>
              /\ ~Ran(c, "handler")
              /\ reads[c] = 0
              /\ result[c] = NoResult
              /\ pc[c] \in {"validated", "done"}
              /\ pc[c] = "done" => (resp[c].status = 422 /\ resp[c].errors = viol[c])
        /\ (/\ pc[c] = "done"
            /\ Endpoint(c) = "update_person"
            /\ \/ req[c].body # GoodUpdateBody
               \/ ~ParseInt(req[c].path[2]).ok
               \/ PersonIdSent(c) <= 0) =>
              (resp[c].status = 422 /\ reads[c] = 0 /\ ~Ran(c, "handler"))

\* A PUT for identifier 6, not in the store, with an invalid body, was
\* answered with the validation failure.
C5_Witness ==
    \E c \in Clients :
        /\ pc[c] = "done"
        /\ Endpoint(c) = "update_person"
        /\ ParseInt(req[c].path[2]).ok
        /\ PersonIdSent(c) = 6
        /\ req[c].body # GoodUpdateBody
        /\ resp[c].status = 422

\* The response the pipeline gives a request against a given record store.
ResponseTo(rq, store) ==
    LET i == MatchFrom(1, rq)
        bag == BindRequest(Routes[i], rq)
    IN  IF i = 0
        THEN (IF \E j \in 1..Len(Routes) : PathMatches(Routes[j].path, rq.path)
              THEN MethodNotAllowedResponse ELSE NotFoundResponse)
        ELSE IF RequestViolations(Routes[i], bag) # <<>>
             THEN InvalidResponse(RequestViolations(Routes[i], bag))
             ELSE Project(Routes[i],
                          CallEndpoint(Routes[i], RequestArgs(Routes[i], bag), store).result)

NameSent(c) == Get(req[c].query, "name")

NameAcceptable(c) ==
    NameSent(c).t = "absent" \/ (NameSent(c).t = "str" /\ InRange(Len(NameSent(c).s), 1, 50))

\* C7: on GET /person/detail with name absent or of length 1..50, every
\* supplied age, numeric or not, passes validation and reaches the handler;
\* with age not supplied, validation gives exactly one violation, the missing
\* age.
C7_AgeIsUntypedButRequired ==
    \A c \in Clients :
        (/\ pc[c] \in {"validated", "handled", "done"}
         /\ Endpoint(c) = "show_person_query"
         /\ NameAcceptable(c)) =>
            /\ Get(req[c].query, "age").t = "str" =>
                  /\ viol[c] = <<>>
                  /\ pc[c] \in {"handled", "done"} =>
                        (Ran(c, "handler") /\ result[c].dyn[1][2] = Get(req[c].query, "age"))
                  /\ pc[c] = "done" => resp[c].status = 200
            /\ Get(req[c].query, "age").t = "absent" =>
                  /\ viol[c] = << Violation(<<"query", "age">>, "missing") >>
                  /\ ~Ran(c, "handler")

\* The age "abc" reached the handler.
C7_Witness ==
    \E c \in Clients :
        /\ pc[c] = "done"
        /\ Endpoint(c) = "show_person_query"
        /\ Get(req[c].query, "age") = JStr(tAbc)
        /\ Ran(c, "handler")
        /\ resp[c].status = 200

\* The handler the source registers for a method and path, "" for none.
Registered(method, path) ==
    CASE method = "GET" /\ path = <<>> -> "home"
      [] method = "POST" /\ path = <<sPerson, sNew>> -> "create_person"
      [] method = "GET" /\ path = <<sPerson, sDetail>> -> "show_person_query"
      [] method = "GET" /\ Len(path) = 3 /\ SubSeq(path, 1, 2) = <<sPerson, sDetail>> ->
            "show_person_path"
      [] method = "PUT" /\ Len(path) = 2 /\ path[1] = sPerson -> "update_person"
      [] method = "POST" /\ path = <<sLogin>> -> "login"
      [] method = "POST" /\ path = <<sContact>> -> "contact"
      [] method = "POST" /\ path = <<sPostImage>> -> "post_image"
      [] OTHER -> ""

C9_UpdateEchoesPassword ==
    \A c \in Clients :
        (pc[c] = "done" /\ Endpoint(c) = "update_person" /\ resp[c].status = 200) =>
            /\ PersonIdSent(c) \in {1, 2, 3, 4, 5}
            /\ resp[c].body.t = "obj"
            /\ DOMAIN resp[c].body.o =
                  {"first_name", "last_name", "age", "hair_color", "is_married",
                   "password", "city", "state", "country"}
            /\ resp[c].body.o.password = req[c].body.o.person.o.password
            /\ resp[c].body.o.city = req[c].body.o.location.o.city

\* A valid PUT for identifier 3 was answered 200 with the password in it.
C9_Witness ==
    \E c \in Clients :
        /\ pc[c] = "done"
        /\ Endpoint(c) = "update_person"
        /\ PersonIdSent(c) = 3
        /\ resp[c].status = 200
        /\ resp[c].body.o.password = JStr(tSecretpw)

\* C10: every request matching GET /person/detail/{person_id} fails
\* validation with a missing-value violation for the path parameter
\* peron_id, whatever segment was captured, and its handler is never called.
C10_PeronIdIsAlwaysMissing ==
    \A c \in Clients :
        Endpoint(c) = "show_person_path" =>
            /\ ~Ran(c, "handler")
            /\ pc[c] \in {"matched", "bound", "validated", "done"}
            /\ pc[c] \in {"bound", "validated", "done"} => raw[c]["peron_id"] = Absent
            /\ pc[c] \in {"validated", "done"} =>
                  viol[c] = << Violation(<<"path", "peron_id">>, "missing") >>
            /\ pc[c] = "done" => resp[c].status = 422

\* GET /person/detail/3 was answered with the validation failure.
C10_Witness ==
    \E c \in Clients :
        /\ pc[c] = "done"
        /\ Endpoint(c) = "show_person_path"
        /\ req[c].path[3] = <<"3">>
        /\ resp[c].status = 422
====
